---- MODULE Spec2Model ----
(***************************************************************************)
(* Model of the Hybrid Data Explorer: the backend (backend/index.js and    *)
(* its earlier revision), with the configuration registry kept in the      *)
(* BigQuery table `entities` and the /api/query proxy that forwards a      *)
(* query to the warehouse function, and the React application with its     *)
(* query builder and admin view.                                           *)
(*                                                                         *)
(* JavaScript values are modelled as tagged records [t, v]:                *)
(*   undefined, text (a string that is not JSON), jsontext (a string that  *)
(*   is the JSON text of the value v), number, array and object (v is a    *)
(*   record from property names to values).                                *)
(***************************************************************************)
EXTENDS Integers, Sequences, FiniteSets, TLC

\* backend:      the revision of the backend that serves ("index.js", or the
\*               earlier "part_003")
\* FUNCTION_URL: process.env.FUNCTION_URL
\* table:        the rows of the BigQuery table `entities`
\* req:          the /api/query requests in flight
\* cfgRes:       the response to the latest /api/config request
\* ui:           the state of the React application
\* jobs:         the MERGE jobs created and not yet run
\* lastWrite:    per entity_name, the row of the latest write answered with
\*               success (history variable)
VARIABLES backend, FUNCTION_URL, table, req, cfgRes, ui, jobs, lastWrite

vars == <<backend, FUNCTION_URL, table, req, cfgRes, ui, jobs, lastWrite>>

----------------------------------------------------------------------------
(* JavaScript values *)

Undefined == [t |-> "undefined", v |-> 0]

Str(s) == [t |-> "text", v |-> s]

Num(n) == [t |-> "number", v |-> n]

Arr(s) == [t |-> "array", v |-> s]

Obj(r) == [t |-> "object", v |-> r]

\* typeof x === 'string'
IsString(x) == x.t \in {"text", "jsontext"}

\* !x for the values of the model: undefined and the empty string are falsy
Falsy(x) == x.t = "undefined" \/ (x.t = "text" /\ x.v = "")

\* JSON.stringify(x): the JSON text of x
JSON_stringify(x) == [t |-> "jsontext", v |-> x]

\* JSON.parse(s) of a string s: the value a JSON text denotes, a SyntaxError
\* for any other text
JSON_parse(s) ==
    IF s.t = "jsontext" THEN [ok |-> TRUE, value |-> s.v]
    ELSE [ok |-> FALSE, value |-> Undefined]

\* o.k for a value o that is not undefined: the property, or undefined when o
\* has no such property (a string has none of the properties the code reads)
Get(o, k) ==
    IF o.t = "object" /\ k \in DOMAIN o.v THEN o.v[k] ELSE Undefined

\* { ...a, ...b } for records a and b of properties: b's properties win
Spread(a, b) ==
    [k \in (DOMAIN a) \cup (DOMAIN b) |-> IF k \in DOMAIN b THEN b[k] ELSE a[k]]

----------------------------------------------------------------------------
(* Inputs *)

WarehouseUrl == "https://function.example/query-bigquery"

EntityNames == {"Sales_Report", "Legacy_Finance_Data"}

SourceSystems == {"SCM-BQ", "SAP-BW", "ORACLE"}

SalesDetails ==
    Obj([projectId |-> Str("your-gcp-project"), datasetId |-> Str("sales_data"),
         tableId |-> Str("sales_report_2024")])

\* source_details as a request may carry it: the object, its JSON text as the
\* registry stores it, a text that is not JSON, or nothing
RequestDetails ==
    {SalesDetails, JSON_stringify(SalesDetails), Str("{not json"), Undefined}

RequestEntities ==
    {Undefined} \cup
    {Obj([entity_name |-> Str(n), source_of_system |-> Str(s), source_details |-> d]) :
        n \in EntityNames, s \in SourceSystems, d \in RequestDetails}

\* MOCK_COLUMNS: the columns each entity declares
MOCK_COLUMNS(n) ==
    IF n = "Sales_Report"
    THEN <<"product_id", "sale_date", "amount", "region", "customer_id">>
    ELSE IF n = "Inventory_Levels"
    THEN <<"product_id", "warehouse_id", "quantity_on_hand", "last_updated">>
    ELSE <<>>

Range(q) == {q[i] : i \in 1..Len(q)}

\* the operators the query builder offers
Operators == {"=", "!=", ">", "<", ">=", "<=", "IN", "NOT IN"}

\* the row limit the query builder sends
UILimit == 1000

Filter(c, o) == Obj([column |-> Str(c), operator |-> Str(o), value |-> Str("100")])

\* the query of the spec's scenario, and the ways a caller can depart from it
GoodQuery ==
    [columns |-> Arr(<<Str("amount")>>),
     filters |-> Arr(<<Filter("amount", ">")>>),
     limit |-> Num(10)]

PlainQueries ==
    {GoodQuery,
     [GoodQuery EXCEPT !.columns = Arr(<<>>)],
     [GoodQuery EXCEPT !.columns = Arr(<<Str("amount"), Str("ssn")>>)],
     [GoodQuery EXCEPT !.filters = Arr(<<>>)],
     [GoodQuery EXCEPT !.filters = Arr(<<Filter("ssn", "=")>>)],
     [GoodQuery EXCEPT !.filters = Arr(<<Filter("amount", "LIKE")>>)],
     [GoodQuery EXCEPT !.limit = Num(UILimit + 1)]}

\* a caller may add properties to `query` beyond columns, filters and limit
RequestQueries ==
    {Undefined} \cup {Obj(q) : q \in PlainQueries}
    \cup {Obj(Spread(GoodQuery, [projectId |-> Str("other-project")]))}

\* req.body of POST /api/query
QueryBodies ==
    {Obj([entity |-> e, query |-> q]) : e \in RequestEntities, q \in RequestQueries}

\* what the token request can end in besides a client: an error with or
\* without an HTTP response of the metadata server
NoResponseError == [hasResponse |-> FALSE, status |-> 0, data |-> Undefined]

HttpError(s, d) == [hasResponse |-> TRUE, status |-> s, data |-> d]

TokenErrors ==
    {NoResponseError, HttpError(403, Obj([error |-> Str("metadata: forbidden")]))}

\* what the warehouse function can answer
DownstreamStatuses == {200, 400, 503}

DownstreamBodies ==
    {Obj([data |-> Str("rows")]),
     Obj([error |-> Str("Unrecognized name: ssn at [1:8]")]),
     Obj([error |-> Str("Traceback (most recent call last): bigquery")])}

DownstreamResponses ==
    {[status |-> s, data |-> d] : s \in DownstreamStatuses, d \in DownstreamBodies}

----------------------------------------------------------------------------
(* One request slot of POST /api/query *)

Res(s, b) == [status |-> s, body |-> b]

ErrorBody(m) == Obj([error |-> Str(m)])

IdleSlot ==
    [pc |-> "idle", body |-> Undefined, adapter |-> "none",
     functionPayload |-> Undefined, tokens |-> <<>>, calls |-> <<>>,
     caught |-> "none", error |-> NoResponseError, res |-> <<>>]

\* res.status(s).json(b): the response is sent and the handler ends
Send(slot, s, b) == [slot EXCEPT !.pc = "done", !.res = Append(@, Res(s, b))]

\* the catch block of the warehouse path
Catch(slot, from, error) ==
    LET status == IF error.hasResponse THEN error.status ELSE 500
        data == IF error.hasResponse THEN error.data
                ELSE ErrorBody("Failed to execute BigQuery query via proxy.")
    IN  Send([slot EXCEPT !.caught = from, !.error = error], status, data)

\* const sourceDetails = typeof ... === 'string' ? JSON.parse(...) : ...
SourceDetailsOf(entity) ==
    LET sd == Get(entity, "source_details")
    IN  IF IsString(sd) THEN JSON_parse(sd) ELSE [ok |-> TRUE, value |-> sd]

\* const functionPayload = { projectId: ..., datasetId: ..., tableId: ..., ...query }
FunctionPayload(sourceDetails, query) ==
    Obj(Spread([projectId |-> Get(sourceDetails, "projectId"),
                datasetId |-> Get(sourceDetails, "datasetId"),
                tableId |-> Get(sourceDetails, "tableId")], query.v))

\* a variant of the handler's start that does not look at FUNCTION_URL
Receive_UrlUnchecked(slot, body) ==
    LET entity == Get(body, "entity")
        query == Get(body, "query")
        sos == Get(entity, "source_of_system")
        got == [slot EXCEPT !.pc = "received", !.body = body]
    IN  IF Falsy(entity) \/ Falsy(query)
        THEN Send(got, 400, ErrorBody("Invalid payload. \"entity\" and \"query\" are required."))
        ELSE IF sos = Str("SCM-BQ")
        THEN LET parsed == SourceDetailsOf(entity)
                 scm == [got EXCEPT !.adapter = "SCM-BQ"]
             IN  IF ~parsed.ok \/ parsed.value.t = "undefined"
                 THEN Catch(scm, "prepare", NoResponseError)
                 ELSE [scm EXCEPT !.pc = "token",
                                  !.functionPayload = FunctionPayload(parsed.value, query),
                                  !.tokens = Append(@, FUNCTION_URL)]
        ELSE IF sos = Str("SAP-BW")
        THEN Send([got EXCEPT !.adapter = "SAP-BW"], 501,
                  ErrorBody("SAP-BW querying is not implemented yet."))
        ELSE Send(got, 400,
                  ErrorBody("Unsupported source system: " \o
                            (IF sos.t = "text" THEN sos.v ELSE "undefined")))

\* the handler from its start to its first await
Receive(slot, body) ==
    LET entity == Get(body, "entity")
        query == Get(body, "query")
        sos == Get(entity, "source_of_system")
        got == [slot EXCEPT !.pc = "received", !.body = body]
    IN  IF Falsy(entity) \/ Falsy(query)
        THEN Send(got, 400, ErrorBody("Invalid payload. \"entity\" and \"query\" are required."))
        ELSE IF sos = Str("SCM-BQ")
        THEN IF FUNCTION_URL = ""
             THEN Send(got, 500, ErrorBody("Query function URL is not configured on the backend."))
             ELSE LET parsed == SourceDetailsOf(entity)
                      scm == [got EXCEPT !.adapter = "SCM-BQ"]
                  IN  IF ~parsed.ok \/ parsed.value.t = "undefined"
                      THEN Catch(scm, "prepare", NoResponseError)
                      ELSE [scm EXCEPT !.pc = "token",
                                       !.functionPayload = FunctionPayload(parsed.value, query),
                                       !.tokens = Append(@, FUNCTION_URL)]
        ELSE IF sos = Str("SAP-BW")
        THEN Send([got EXCEPT !.adapter = "SAP-BW"], 501,
                  ErrorBody("SAP-BW querying is not implemented yet."))
        ELSE Send(got, 400,
                  ErrorBody("Unsupported source system: " \o
                            (IF sos.t = "text" THEN sos.v ELSE "undefined")))

Query_Receive(r, body) ==
    /\ req[r].pc = "idle"
    /\ req' = [req EXCEPT ![r] = Receive(@, body)]
    /\ UNCHANGED <<backend, FUNCTION_URL, table, cfgRes, ui, jobs, lastWrite>>

\* await auth.getIdTokenClient(FUNCTION_URL) resolves: client.request is issued
Query_TokenOk(r) ==
    /\ req[r].pc = "token"
    /\ req' = [req EXCEPT ![r] =
                 [@ EXCEPT !.pc = "calling",
                           !.calls = Append(@, [url |-> FUNCTION_URL,
                                                data |-> req[r].functionPayload])]]
    /\ UNCHANGED <<backend, FUNCTION_URL, table, cfgRes, ui, jobs, lastWrite>>

\* a variant that posts the payload although no token could be had
Query_TokenFail_CallsAnyway(r, error) ==
    /\ req[r].pc = "token"
    /\ req' = [req EXCEPT ![r] =
                 [@ EXCEPT !.pc = "calling", !.caught = "token", !.error = error,
                           !.calls = Append(@, [url |-> FUNCTION_URL,
                                                data |-> req[r].functionPayload])]]
    /\ UNCHANGED <<backend, FUNCTION_URL, table, cfgRes, ui, jobs, lastWrite>>

\* a variant whose token request is awaited outside the try block: the
\* rejection leaves the handler and no response is sent
Query_TokenFail_Uncaught(r, error) ==
    /\ req[r].pc = "token"
    /\ req' = [req EXCEPT ![r] =
                 [@ EXCEPT !.pc = "done", !.caught = "token", !.error = error]]
    /\ UNCHANGED <<backend, FUNCTION_URL, table, cfgRes, ui, jobs, lastWrite>>

\* await auth.getIdTokenClient(FUNCTION_URL) rejects
Query_TokenFail(r, error) ==
    /\ req[r].pc = "token"
    /\ req' = [req EXCEPT ![r] = Catch(@, "token", error)]
    /\ UNCHANGED <<backend, FUNCTION_URL, table, cfgRes, ui, jobs, lastWrite>>

\* a variant that posts the payload once more when the first call failed
Query_Call_Retries(r, outcome) ==
    /\ req[r].pc = "calling"
    /\ req' = [req EXCEPT ![r] =
                 IF outcome.hasResponse /\ outcome.status \in 200..299
                 THEN Send(@, outcome.status, outcome.data)
                 ELSE IF Len(@.calls) < 2
                 THEN [@ EXCEPT !.calls = Append(@, [url |-> FUNCTION_URL,
                                                     data |-> req[r].functionPayload])]
                 ELSE Catch(@, "call", outcome)]
    /\ UNCHANGED <<backend, FUNCTION_URL, table, cfgRes, ui, jobs, lastWrite>>

\* await client.request(...) settles: a 2xx response resolves, any other
\* response and the lack of one reject
Query_Call(r, outcome) ==
    /\ req[r].pc = "calling"
    /\ req' = [req EXCEPT ![r] =
                 IF outcome.hasResponse /\ outcome.status \in 200..299
                 THEN Send(@, outcome.status, outcome.data)
                 ELSE Catch(@, "call", outcome)]
    /\ UNCHANGED <<backend, FUNCTION_URL, table, cfgRes, ui, jobs, lastWrite>>

\* the exchange is over and the slot takes the next request
Query_Close(r) ==
    /\ req[r].pc = "done"
    /\ req' = [req EXCEPT ![r] = IdleSlot]
    /\ UNCHANGED <<backend, FUNCTION_URL, table, cfgRes, ui, jobs, lastWrite>>

CallOutcomes ==
    {NoResponseError} \cup {HttpError(d.status, d.data) : d \in DownstreamResponses}

----------------------------------------------------------------------------
(* The registry: the rows of the BigQuery table `entities` *)

MaxRows == 2

ConfigSystems == {"SCM-BQ", "SAP-BW"}

DisplayNames == {"", "Sales Report"}

\* req.body of POST /api/config and PUT /api/config/:entity_name
ConfigBodies ==
    {Obj([entity_name |-> Str(n), display_name |-> Str(d),
          source_of_system |-> Str(s), source_details |-> SalesDetails]) :
        n \in EntityNames, d \in DisplayNames, s \in ConfigSystems}

\* error.code of the error the insert of an existing row is answered with
ALREADY_EXISTS == 6

\* the storage call of a handler succeeds or throws an error with a code
StorageOutcomes == {[ok |-> TRUE, code |-> 0], [ok |-> FALSE, code |-> 503]}

Rows == {table[i] : i \in 1..Len(table)}

Matching(name) == {i \in 1..Len(table) : table[i].entity_name = name}

RECURSIVE Without(_, _)
Without(rows, name) ==
    IF rows = <<>> THEN <<>>
    ELSE IF Head(rows).entity_name = name THEN Without(Tail(rows), name)
    ELSE <<Head(rows)>> \o Without(Tail(rows), name)

\* the response of a registry handler; rows is the array a list answers with
CfgRes(op, s) == [op |-> op, status |-> s, rows |-> <<>>]

\* no row
NoRow ==
    [entity_name |-> Undefined, display_name |-> Undefined,
     source_of_system |-> Undefined, source_details |-> Undefined]

\* the row a write of entity_name was answered with success for, kept for
\* comparison with later reads
Wrote(name, row) == lastWrite' = [lastWrite EXCEPT ![name.v] = row]

\* a create handler that does not look at source_details before it inserts
Config_Create_Unchecked(body, outcome) ==
    LET entity_name == Get(body, "entity_name")
        display_name == Get(body, "display_name")
        source_of_system == Get(body, "source_of_system")
        source_details == Get(body, "source_details")
        newEntity == [entity_name |-> entity_name, display_name |-> display_name,
                      source_of_system |-> source_of_system,
                      source_details |-> JSON_stringify(source_details)]
    IN  /\ Len(table) < MaxRows
        /\ IF Falsy(entity_name) \/ Falsy(display_name) \/ Falsy(source_of_system)
           THEN table' = table /\ cfgRes' = CfgRes("create", 400)
                /\ UNCHANGED lastWrite
           ELSE IF outcome.ok
           THEN table' = Append(table, newEntity) /\ cfgRes' = CfgRes("create", 201)
                /\ Wrote(entity_name, newEntity)
           ELSE IF outcome.code = ALREADY_EXISTS
           THEN table' = table /\ cfgRes' = CfgRes("create", 409)
                /\ UNCHANGED lastWrite
           ELSE table' = table /\ cfgRes' = CfgRes("create", 500)
                /\ UNCHANGED lastWrite
        /\ UNCHANGED <<backend, FUNCTION_URL, req, ui, jobs>>

\* app.post('/api/config')
Config_Create(body, outcome) ==
    LET entity_name == Get(body, "entity_name")
        display_name == Get(body, "display_name")
        source_of_system == Get(body, "source_of_system")
        source_details == Get(body, "source_details")
        newEntity == [entity_name |-> entity_name, display_name |-> display_name,
                      source_of_system |-> source_of_system,
                      source_details |-> JSON_stringify(source_details)]
    IN  /\ Len(table) < MaxRows
        /\ IF Falsy(entity_name) \/ Falsy(display_name) \/ Falsy(source_of_system)
              \/ Falsy(source_details)
           THEN table' = table /\ cfgRes' = CfgRes("create", 400)
                /\ UNCHANGED lastWrite
           ELSE IF outcome.ok
           THEN table' = Append(table, newEntity) /\ cfgRes' = CfgRes("create", 201)
                /\ Wrote(entity_name, newEntity)
           ELSE IF outcome.code = ALREADY_EXISTS
           THEN table' = table /\ cfgRes' = CfgRes("create", 409)
                /\ UNCHANGED lastWrite
           ELSE table' = table /\ cfgRes' = CfgRes("create", 500)
                /\ UNCHANGED lastWrite
        /\ UNCHANGED <<backend, FUNCTION_URL, req, ui, jobs>>

\* app.put('/api/config/:entity_name')
Config_Update(name, body, outcome) ==
    LET entity_name == Str(name)
        display_name == Get(body, "display_name")
        source_of_system == Get(body, "source_of_system")
        source_details == Get(body, "source_details")
    IN  /\ IF Falsy(display_name) \/ Falsy(source_of_system) \/ Falsy(source_details)
           THEN table' = table /\ cfgRes' = CfgRes("update", 400)
                /\ UNCHANGED lastWrite
           ELSE IF ~outcome.ok
           THEN table' = table /\ cfgRes' = CfgRes("update", 500)
                /\ UNCHANGED lastWrite
           ELSE /\ table' = [i \in 1..Len(table) |->
                               IF i \in Matching(entity_name)
                               THEN [table[i] EXCEPT
                                       !.display_name = display_name,
                                       !.source_of_system = source_of_system,
                                       !.source_details = JSON_stringify(source_details)]
                               ELSE table[i]]
                /\ cfgRes' = CfgRes("update",
                                    IF Matching(entity_name) = {} THEN 404 ELSE 200)
                /\ IF Matching(entity_name) = {} THEN UNCHANGED lastWrite
                   ELSE Wrote(entity_name,
                              [entity_name |-> entity_name, display_name |-> display_name,
                               source_of_system |-> source_of_system,
                               source_details |-> JSON_stringify(source_details)])
        /\ UNCHANGED <<backend, FUNCTION_URL, req, ui, jobs>>

\* a delete handler that answers a storage error as "not found"
Config_Delete_ErrorAsNotFound(name, outcome) ==
    LET entity_name == Str(name)
    IN  /\ IF ~outcome.ok
           THEN table' = table /\ cfgRes' = CfgRes("delete", 404)
                /\ UNCHANGED lastWrite
           ELSE /\ table' = Without(table, entity_name)
                /\ cfgRes' = CfgRes("delete",
                                    IF Matching(entity_name) = {} THEN 404 ELSE 204)
                /\ IF Matching(entity_name) = {} THEN UNCHANGED lastWrite
                   ELSE Wrote(entity_name, NoRow)
        /\ UNCHANGED <<backend, FUNCTION_URL, req, ui, jobs>>

\* app.delete('/api/config/:entity_name')
Config_Delete(name, outcome) ==
    LET entity_name == Str(name)
    IN  /\ IF ~outcome.ok
           THEN table' = table /\ cfgRes' = CfgRes("delete", 500)
                /\ UNCHANGED lastWrite
           ELSE /\ table' = Without(table, entity_name)
                /\ cfgRes' = CfgRes("delete",
                                    IF Matching(entity_name) = {} THEN 404 ELSE 204)
                /\ IF Matching(entity_name) = {} THEN UNCHANGED lastWrite
                   ELSE Wrote(entity_name, NoRow)
        /\ UNCHANGED <<backend, FUNCTION_URL, req, ui, jobs>>

\* the insert of a row whose entity_name is stored may also be refused as
\* ALREADY_EXISTS
InsertOutcomes(body) ==
    StorageOutcomes \cup
        (IF Matching(Get(body, "entity_name")) # {}
         THEN {[ok |-> FALSE, code |-> ALREADY_EXISTS]} ELSE {})

\* the collation of the display names in use
DisplayOrder == <<"", "Legacy Finance Data", "Sales Report">>

Rank(display_name) ==
    CHOOSE i \in 1..Len(DisplayOrder) : DisplayOrder[i] = display_name.v

\* ORDER BY display_name
Ordered(rows) ==
    \A i, j \in 1..Len(rows) :
        i < j => Rank(rows[i].display_name) <= Rank(rows[j].display_name)

\* app.get('/api/config'); rows with equal display_name come in any order
Config_List(outcome) ==
    /\ IF ~outcome.ok
       THEN cfgRes' = CfgRes("list", 500)
       ELSE \E p \in Permutations(1..Len(table)) :
               LET rows == [i \in 1..Len(table) |-> table[p[i]]]
               IN  /\ Ordered(rows)
                   /\ cfgRes' = [op |-> "list", status |-> 200, rows |-> rows]
    /\ UNCHANGED <<backend, FUNCTION_URL, table, req, ui, jobs, lastWrite>>

----------------------------------------------------------------------------
(* The registry handlers of the earlier revision of the backend *)

MaxJobs == 2

\* req.headers.authorization
AuthHeaders == {Undefined, Str("Basic dXNlcjpwdw=="), Str("Bearer token")}

\* authHeader.startsWith('Bearer ')
StartsWithBearer(authHeader) == authHeader \in {Str("Bearer token")}

checkAuth(authHeader) == ~Falsy(authHeader) /\ StartsWithBearer(authHeader)

\* app.post('/api/config') of the earlier revision
Old_Config_Create(authHeader, body, outcome) ==
    LET entity_name == Get(body, "entity_name")
        display_name == Get(body, "display_name")
        source_of_system == Get(body, "source_of_system")
        source_details == Get(body, "source_details")
        newEntity == [entity_name |-> entity_name, display_name |-> display_name,
                      source_of_system |-> source_of_system,
                      source_details |-> JSON_stringify(source_details)]
    IN  /\ Len(table) < MaxRows
        /\ IF ~checkAuth(authHeader)
           THEN table' = table /\ cfgRes' = CfgRes("create", 401)
                /\ UNCHANGED lastWrite
           ELSE IF Falsy(entity_name) \/ Falsy(display_name) \/ Falsy(source_of_system)
                   \/ Falsy(source_details)
           THEN table' = table /\ cfgRes' = CfgRes("create", 400)
                /\ UNCHANGED lastWrite
           ELSE IF outcome.ok
           THEN table' = Append(table, newEntity) /\ cfgRes' = CfgRes("create", 201)
                /\ Wrote(entity_name, newEntity)
           ELSE table' = table /\ cfgRes' = CfgRes("create", 500)
                /\ UNCHANGED lastWrite
        /\ UNCHANGED <<backend, FUNCTION_URL, req, ui, jobs>>

\* app.put('/api/config/:entity_name') of the earlier revision: the MERGE job
\* is created, not awaited to its end
Old_Config_Update(authHeader, name, body, outcome) ==
    LET entity_name == Str(name)
        display_name == Get(body, "display_name")
        source_of_system == Get(body, "source_of_system")
        source_details == Get(body, "source_details")
        params == [entity_name |-> entity_name, display_name |-> display_name,
                   source_of_system |-> source_of_system,
                   source_details |-> JSON_stringify(source_details)]
    IN  /\ Cardinality(jobs) < MaxJobs
        /\ IF ~checkAuth(authHeader)
           THEN cfgRes' = CfgRes("update", 401) /\ UNCHANGED <<jobs, lastWrite>>
           ELSE IF Falsy(display_name) \/ Falsy(source_of_system) \/ Falsy(source_details)
           THEN cfgRes' = CfgRes("update", 400) /\ UNCHANGED <<jobs, lastWrite>>
           ELSE IF ~outcome.ok
           THEN cfgRes' = CfgRes("update", 500) /\ UNCHANGED <<jobs, lastWrite>>
           ELSE /\ jobs' = jobs \cup {params}
                /\ cfgRes' = CfgRes("update", 200)
                /\ Wrote(entity_name, params)
        /\ UNCHANGED <<backend, FUNCTION_URL, table, req, ui>>

\* the MERGE job runs: WHEN MATCHED THEN UPDATE SET, and nothing otherwise
Job_Run(params) ==
    /\ params \in jobs
    /\ table' = [i \in 1..Len(table) |->
                    IF i \in Matching(params.entity_name)
                    THEN [table[i] EXCEPT
                            !.display_name = params.display_name,
                            !.source_of_system = params.source_of_system,
                            !.source_details = params.source_details]
                    ELSE table[i]]
    /\ jobs' = jobs \ {params}
    /\ UNCHANGED <<backend, FUNCTION_URL, req, cfgRes, ui, lastWrite>>

\* the MERGE job fails after the handler answered
Job_Fail(params) ==
    /\ params \in jobs
    /\ jobs' = jobs \ {params}
    /\ UNCHANGED <<backend, FUNCTION_URL, table, req, cfgRes, ui, lastWrite>>

\* app.delete('/api/config/:entity_name') of the earlier revision
Old_Config_Delete(authHeader, name, outcome) ==
    LET entity_name == Str(name)
    IN  /\ IF ~checkAuth(authHeader)
           THEN table' = table /\ cfgRes' = CfgRes("delete", 401)
                /\ UNCHANGED lastWrite
           ELSE IF ~outcome.ok
           THEN table' = table /\ cfgRes' = CfgRes("delete", 500)
                /\ UNCHANGED lastWrite
           ELSE /\ table' = Without(table, entity_name)
                /\ cfgRes' = CfgRes("delete", 204)
                /\ Wrote(entity_name, NoRow)
        /\ UNCHANGED <<backend, FUNCTION_URL, req, ui, jobs>>

----------------------------------------------------------------------------
(* The query builder of the UI (App) *)

\* mockConfig of fetchConfig
MockEntity(id, n, d, s, sd) ==
    Obj([id |-> Str(id), entity_name |-> Str(n), display_name |-> Str(d),
         source_of_system |-> Str(s), source_details |-> JSON_stringify(Obj(sd))])

mockConfig ==
    <<MockEntity("1", "Sales_Report", "Sales Report", "SCM-BQ",
                 [projectId |-> Str("your-gcp-project"), datasetId |-> Str("sales_data"),
                  tableId |-> Str("sales_report_2024")]),
      MockEntity("2", "Inventory_Levels", "Inventory Levels", "SCM-BQ",
                 [projectId |-> Str("your-gcp-project"), datasetId |-> Str("inventory"),
                  tableId |-> Str("current_inventory")]),
      MockEntity("3", "Legacy_Finance_Data", "Legacy Finance Data", "SAP-BW",
                 [queryName |-> Str("Z_FIN_Q001")])>>

\* the checkboxes the user of the model clicks
ToggleColumns == {"product_id", "amount", "warehouse_id"}

MaxInFlight == 2

\* the state of App once fetchConfig has run; inflight holds what each
\* executeQuery that is waiting closed over, resultsOf the entity the results
\* on screen were made for (history)
UiInit ==
    [config |-> mockConfig, selectedEntity |-> Undefined, columns |-> <<>>,
     selectedColumns |-> <<>>, filters |-> <<>>, results |-> Undefined,
     isLoading |-> FALSE, error |-> Undefined, adminModalOpen |-> FALSE,
     editingEntity |-> Undefined, inflight |-> <<>>, resultsOf |-> Undefined]

\* config.find(c => c.entity_name === entityName)
RECURSIVE Find(_, _)
Find(config, entityName) ==
    IF config = <<>> THEN Undefined
    ELSE IF Get(Head(config), "entity_name") = entityName THEN Head(config)
    ELSE Find(Tail(config), entityName)

RECURSIVE Remove(_, _)
Remove(q, x) ==
    IF q = <<>> THEN <<>>
    ELSE IF Head(q) = x THEN Remove(Tail(q), x)
    ELSE <<Head(q)>> \o Remove(Tail(q), x)

\* a variant whose effect leaves the filters of the entity selected before
UI_EntityChange_KeepsFilters(i) ==
    LET entity == Find(ui.config, Get(ui.config[i], "entity_name"))
    IN  /\ i \in 1..Len(ui.config)
        /\ ui' = IF entity = ui.selectedEntity THEN ui
                 ELSE [ui EXCEPT !.selectedEntity = entity,
                                 !.columns = MOCK_COLUMNS(Get(entity, "entity_name").v),
                                 !.selectedColumns = <<>>,
                                 !.results = Undefined,
                                 !.resultsOf = Undefined]
        /\ UNCHANGED <<backend, FUNCTION_URL, table, req, cfgRes, jobs, lastWrite>>

\* handleEntityChange, and the effect that runs when selectedEntity changed
UI_EntityChange(i) ==
    LET entity == Find(ui.config, Get(ui.config[i], "entity_name"))
    IN  /\ i \in 1..Len(ui.config)
        /\ ui' = IF entity = ui.selectedEntity THEN ui
                 ELSE [ui EXCEPT !.selectedEntity = entity,
                                 !.columns = MOCK_COLUMNS(Get(entity, "entity_name").v),
                                 !.selectedColumns = <<>>,
                                 !.filters = <<>>,
                                 !.results = Undefined,
                                 !.resultsOf = Undefined]
        /\ UNCHANGED <<backend, FUNCTION_URL, table, req, cfgRes, jobs, lastWrite>>

\* handleColumnToggle of a column checkbox that is on screen
UI_ColumnToggle(columnName) ==
    /\ ~Falsy(ui.selectedEntity)
    /\ columnName \in Range(ui.columns)
    /\ ui' = [ui EXCEPT !.selectedColumns =
                IF columnName \in Range(@) THEN Remove(@, columnName)
                ELSE Append(@, columnName)]
    /\ UNCHANGED <<backend, FUNCTION_URL, table, req, cfgRes, jobs, lastWrite>>

MaxFilters == 2

\* the operators the user of the model picks, of those on offer
PickedOperators == {"=", "IN"}

\* the values the user of the model types
TypedValues == {"", "100"}

\* handleAddFilter
UI_AddFilter ==
    /\ ~Falsy(ui.selectedEntity)
    /\ Len(ui.filters) < MaxFilters
    /\ ui' = IF Len(ui.columns) > 0
             THEN [ui EXCEPT !.filters =
                     Append(@, Obj([column |-> Str(ui.columns[1]),
                                    operator |-> Str("="), value |-> Str("")]))]
             ELSE ui
    /\ UNCHANGED <<backend, FUNCTION_URL, table, req, cfgRes, jobs, lastWrite>>

\* what the control of `field` can hand to handleFilterChange
FieldValues(field) ==
    IF field = "column" THEN ToggleColumns \cap Range(ui.columns)
    ELSE IF field = "operator" THEN PickedOperators \cap Operators
    ELSE TypedValues

\* handleFilterChange
UI_FilterChange(index, field, value) ==
    /\ ~Falsy(ui.selectedEntity)
    /\ index \in 1..Len(ui.filters)
    /\ value \in FieldValues(field)
    /\ ui' = [ui EXCEPT !.filters[index] = Obj([@.v EXCEPT ![field] = Str(value)])]
    /\ UNCHANGED <<backend, FUNCTION_URL, table, req, cfgRes, jobs, lastWrite>>

\* handleRemoveFilter
UI_RemoveFilter(index) ==
    /\ ~Falsy(ui.selectedEntity)
    /\ index \in 1..Len(ui.filters)
    /\ ui' = [ui EXCEPT !.filters =
                [k \in 1..(Len(@) - 1) |-> IF k < index THEN @[k] ELSE @[k + 1]]]
    /\ UNCHANGED <<backend, FUNCTION_URL, table, req, cfgRes, jobs, lastWrite>>

\* a variant whose Execute button stays enabled while isLoading
UI_ExecuteQuery_Enabled ==
    LET sos == Get(ui.selectedEntity, "source_of_system")
        started == [ui EXCEPT !.isLoading = TRUE, !.error = Undefined,
                              !.results = Undefined, !.resultsOf = Undefined]
        closure == [entity |-> ui.selectedEntity, selectedColumns |-> ui.selectedColumns]
    IN  /\ ~Falsy(ui.selectedEntity)
        /\ Len(ui.inflight) < MaxInFlight
        /\ ui' = IF Falsy(ui.selectedEntity) \/ Len(ui.selectedColumns) = 0
                 THEN [ui EXCEPT !.error =
                         Str("Please select an entity and at least one column.")]
                 ELSE IF sos = Str("SCM-BQ")
                         /\ ~JSON_parse(Get(ui.selectedEntity, "source_details")).ok
                 THEN [started EXCEPT !.error = Str("Failed to fetch data. SyntaxError"),
                                      !.isLoading = FALSE]
                 ELSE IF sos \in {Str("SCM-BQ"), Str("SAP-BW")}
                 THEN [started EXCEPT !.inflight = Append(@, closure)]
                 ELSE [started EXCEPT !.isLoading = FALSE]
        /\ UNCHANGED <<backend, FUNCTION_URL, table, req, cfgRes, jobs, lastWrite>>

\* executeQuery from the click on Execute to its first await or its return;
\* the button is on screen once an entity is selected and is disabled while
\* isLoading
UI_ExecuteQuery ==
    LET sos == Get(ui.selectedEntity, "source_of_system")
        started == [ui EXCEPT !.isLoading = TRUE, !.error = Undefined,
                              !.results = Undefined, !.resultsOf = Undefined]
        closure == [entity |-> ui.selectedEntity, selectedColumns |-> ui.selectedColumns]
    IN  /\ ~Falsy(ui.selectedEntity)
        /\ ~ui.isLoading
        /\ Len(ui.inflight) < MaxInFlight
        /\ ui' = IF Falsy(ui.selectedEntity) \/ Len(ui.selectedColumns) = 0
                 THEN [ui EXCEPT !.error =
                         Str("Please select an entity and at least one column.")]
                 ELSE IF sos = Str("SCM-BQ")
                         /\ ~JSON_parse(Get(ui.selectedEntity, "source_details")).ok
                 THEN [started EXCEPT !.error = Str("Failed to fetch data. SyntaxError"),
                                      !.isLoading = FALSE]
                 ELSE IF sos \in {Str("SCM-BQ"), Str("SAP-BW")}
                 THEN [started EXCEPT !.inflight = Append(@, closure)]
                 ELSE [started EXCEPT !.isLoading = FALSE]
        /\ UNCHANGED <<backend, FUNCTION_URL, table, req, cfgRes, jobs, lastWrite>>

Digit(i) == CASE i = 1 -> "1" [] i = 2 -> "2" [] i = 3 -> "3" [] i = 4 -> "4" [] OTHER -> "5"

\* mockData.data: five rows of the columns selected when the query started
MockRows(selectedColumns) ==
    [i \in 1..5 |->
        Obj([col \in Range(selectedColumns) |-> Str(col \o "_value_" \o Digit(i))])]

\* the mock delay of the oldest executeQuery in flight is over: the rest of
\* its try block and its finally block run
UI_QueryDone ==
    /\ ui.inflight # <<>>
    /\ LET closure == Head(ui.inflight)
       IN  ui' = [ui EXCEPT
                    !.inflight = Tail(@),
                    !.results =
                       IF Get(closure.entity, "source_of_system") = Str("SCM-BQ")
                       THEN Arr(MockRows(closure.selectedColumns))
                       ELSE Arr(<<Obj([note |->
                               Str("Data from SAP-BW would be displayed here.")])>>),
                    !.resultsOf = closure.entity,
                    !.isLoading = FALSE]
    /\ UNCHANGED <<backend, FUNCTION_URL, table, req, cfgRes, jobs, lastWrite>>

----------------------------------------------------------------------------
(* The admin view of the application *)

MaxConfig == 4

\* what the user can leave in the form of AdminModal at submit: the form's
\* start with a name and a source_details typed in, or the entity under edit
\* as it is or renamed
FormData(entity) ==
    IF Falsy(entity)
    THEN {Obj([display_name |-> Str("Returns"), entity_name |-> Str(n),
               source_of_system |-> Str("SCM-BQ"), source_details |-> sd]) :
            n \in {"Returns", "Sales_Report"},
            sd \in {JSON_stringify(Obj(<<>>)), Str("{")}}
    ELSE {entity, Obj([entity.v EXCEPT !.display_name = Str("Renamed")])}

\* the New Entity button
UI_NewEntity ==
    /\ ~ui.adminModalOpen
    /\ ui' = [ui EXCEPT !.editingEntity = Undefined, !.adminModalOpen = TRUE]
    /\ UNCHANGED <<backend, FUNCTION_URL, table, req, cfgRes, jobs, lastWrite>>

\* handleEditEntity of the i-th row
UI_EditEntity(i) ==
    /\ ~ui.adminModalOpen
    /\ i \in 1..Len(ui.config)
    /\ ui' = [ui EXCEPT !.editingEntity = ui.config[i], !.adminModalOpen = TRUE]
    /\ UNCHANGED <<backend, FUNCTION_URL, table, req, cfgRes, jobs, lastWrite>>

\* the Cancel button of AdminModal
UI_CloseModal ==
    /\ ui.adminModalOpen
    /\ ui' = [ui EXCEPT !.adminModalOpen = FALSE]
    /\ UNCHANGED <<backend, FUNCTION_URL, table, req, cfgRes, jobs, lastWrite>>

\* handleSubmit of AdminModal, and handleSaveEntity when the source_details
\* typed in is JSON
UI_SaveEntity(entityData) ==
    /\ ui.adminModalOpen
    /\ entityData \in FormData(ui.editingEntity)
    /\ Falsy(ui.editingEntity) => Len(ui.config) < MaxConfig
    /\ ui' = IF ~JSON_parse(Get(entityData, "source_details")).ok
             THEN ui
             ELSE [ui EXCEPT
                     !.config =
                        IF ~Falsy(ui.editingEntity)
                        THEN [k \in 1..Len(@) |->
                                IF Get(@[k], "id") = Get(entityData, "id")
                                THEN entityData ELSE @[k]]
                        ELSE Append(@, Obj(Spread(entityData.v,
                                                  [id |-> Str(Digit(Len(@) + 1))]))),
                     !.adminModalOpen = FALSE,
                     !.editingEntity = Undefined]
    /\ UNCHANGED <<backend, FUNCTION_URL, table, req, cfgRes, jobs, lastWrite>>

\* config.filter(e => e.id !== entityId)
RECURSIVE WithoutId(_, _)
WithoutId(config, entityId) ==
    IF config = <<>> THEN <<>>
    ELSE IF Get(Head(config), "id") = entityId THEN WithoutId(Tail(config), entityId)
    ELSE <<Head(config)>> \o WithoutId(Tail(config), entityId)

\* handleDeleteEntity of the i-th row; confirmed is the answer to
\* window.confirm
UI_DeleteEntity(i, confirmed) ==
    /\ ~ui.adminModalOpen
    /\ i \in 1..Len(ui.config)
    /\ ui' = IF confirmed
             THEN [ui EXCEPT !.config = WithoutId(@, Get(ui.config[i], "id"))]
             ELSE ui
    /\ UNCHANGED <<backend, FUNCTION_URL, table, req, cfgRes, jobs, lastWrite>>

----------------------------------------------------------------------------
(* The server: one request slot, the registry handlers and /api/query *)

Slots == {1}

Init ==
    /\ FUNCTION_URL \in {"", WarehouseUrl}
    /\ table = <<>>
    /\ req = [r \in Slots |-> IdleSlot]
    /\ cfgRes = CfgRes("none", 0)
    /\ ui = UiInit
    /\ jobs = {}
    /\ backend = "index.js"
    /\ lastWrite = [n \in EntityNames |-> NoRow]

Next ==
    \/ \E b \in ConfigBodies, o \in StorageOutcomes : Config_Create(b, o)
    \/ \E n \in EntityNames, b \in ConfigBodies, o \in StorageOutcomes :
          Config_Update(n, b, o)
    \/ \E n \in EntityNames, o \in StorageOutcomes : Config_Delete(n, o)
    \/ \E r \in DOMAIN req, b \in QueryBodies : Query_Receive(r, b)
    \/ \E r \in DOMAIN req : Query_TokenOk(r)
    \/ \E r \in DOMAIN req, e \in TokenErrors : Query_TokenFail(r, e)
    \/ \E r \in DOMAIN req, o \in CallOutcomes : Query_Call(r, o)
    \/ \E r \in DOMAIN req : Query_Close(r)

Spec == Init /\ [][Next]_vars

----------------------------------------------------------------------------
(* The query proxy alone: one request slot, every request body *)

NextQuery ==
    \/ \E r \in DOMAIN req, b \in QueryBodies : Query_Receive(r, b)
    \/ \E r \in DOMAIN req : Query_TokenOk(r)
    \/ \E r \in DOMAIN req, e \in TokenErrors : Query_TokenFail(r, e)
    \/ \E r \in DOMAIN req, o \in CallOutcomes : Query_Call(r, o)
    \/ \E r \in DOMAIN req : Query_Close(r)

SpecQuery == Init /\ [][NextQuery]_vars

----------------------------------------------------------------------------
(* The query proxy in front of a warehouse function that may never answer *)

\* the warehouse function accepts the call of slot r and never answers it;
\* the handler set no timeout on client.request, so its await never settles
Downstream_Hang(r) ==
    /\ req[r].pc = "calling"
    /\ req' = [req EXCEPT ![r] = [@ EXCEPT !.pc = "hung"]]
    /\ UNCHANGED <<backend, FUNCTION_URL, table, cfgRes, ui, jobs, lastWrite>>

NextHang ==
    \/ NextQuery
    \/ \E r \in DOMAIN req : Downstream_Hang(r)

\* the event loop runs every continuation that is ready
SpecHang == Init /\ [][NextHang]_vars /\ WF_vars(NextHang)

----------------------------------------------------------------------------
(* The registry service alone, in either revision of the backend *)

ListedDisplayNames == {"", "Legacy Finance Data", "Sales Report"}

\* a body with every required field
GoodBody ==
    [entity_name |-> Str("Sales_Report"), display_name |-> Str("Sales Report"),
     source_of_system |-> Str("SCM-BQ"), source_details |-> SalesDetails]

\* req.body of the registry requests: every name with every display name,
\* and GoodBody with one field left out
RegistryBodies ==
    {Obj([entity_name |-> Str(n), display_name |-> Str(d),
          source_of_system |-> Str("SCM-BQ"), source_details |-> SalesDetails]) :
        n \in EntityNames, d \in ListedDisplayNames}
    \cup {Obj([GoodBody EXCEPT ![f] = Undefined]) : f \in DOMAIN GoodBody}

InitRegistry ==
    /\ backend \in {"index.js", "part_003"}
    /\ FUNCTION_URL = WarehouseUrl
    /\ table = <<>>
    /\ req = [r \in Slots |-> IdleSlot]
    /\ cfgRes = CfgRes("none", 0)
    /\ ui = UiInit
    /\ jobs = {}
    /\ lastWrite = [n \in EntityNames |-> NoRow]

NextRegistry ==
    \/ \E outcome \in StorageOutcomes : Config_List(outcome)
    \/ \E body \in RegistryBodies : \E outcome \in InsertOutcomes(body) :
          backend = "index.js" /\ Config_Create(body, outcome)
    \/ \E name \in EntityNames, body \in RegistryBodies,
          outcome \in StorageOutcomes :
          backend = "index.js" /\ Config_Update(name, body, outcome)
    \/ \E name \in EntityNames, outcome \in StorageOutcomes :
          backend = "index.js" /\ Config_Delete(name, outcome)
    \/ \E authHeader \in AuthHeaders, body \in RegistryBodies,
          outcome \in StorageOutcomes :
          backend = "part_003" /\ Old_Config_Create(authHeader, body, outcome)
    \/ \E authHeader \in AuthHeaders, name \in EntityNames,
          body \in RegistryBodies, outcome \in StorageOutcomes :
          backend = "part_003" /\ Old_Config_Update(authHeader, name, body, outcome)
    \/ \E authHeader \in AuthHeaders, name \in EntityNames,
          outcome \in StorageOutcomes :
          backend = "part_003" /\ Old_Config_Delete(authHeader, name, outcome)
    \/ \E params \in jobs : Job_Run(params)
    \/ \E params \in jobs : Job_Fail(params)

SpecRegistry == InitRegistry /\ [][NextRegistry]_vars

----------------------------------------------------------------------------
(* The whole server: two /api/query requests in flight next to the registry *)

\* req.body of POST /api/query: a query of the sales entity, the same with a
\* source_details that is not JSON, and a body without entity
ServerQueryBodies ==
    {Obj([entity |-> Obj([entity_name |-> Str("Sales_Report"),
                          source_of_system |-> Str("SCM-BQ"),
                          source_details |-> d]),
          query |-> Obj(GoodQuery)]) : d \in {SalesDetails, Str("{not json")}}
    \cup {Obj([entity |-> Undefined, query |-> Obj(GoodQuery)])}

\* req.body of the registry requests
ServerBodies == {Obj(GoodBody), Obj([GoodBody EXCEPT !.source_details = Undefined])}

InitServer ==
    /\ backend = "index.js"
    /\ FUNCTION_URL = WarehouseUrl
    /\ table = <<>>
    /\ req = [r \in {1, 2} |-> IdleSlot]
    /\ cfgRes = CfgRes("none", 0)
    /\ ui = UiInit
    /\ jobs = {}
    /\ lastWrite = [n \in EntityNames |-> NoRow]

NextServer ==
    \/ \E outcome \in StorageOutcomes : Config_List(outcome)
    \/ \E body \in ServerBodies : \E outcome \in InsertOutcomes(body) :
          Config_Create(body, outcome)
    \/ \E name \in EntityNames, body \in ServerBodies, outcome \in StorageOutcomes :
          Config_Update(name, body, outcome)
    \/ \E name \in EntityNames, outcome \in StorageOutcomes :
          Config_Delete(name, outcome)
    \/ \E r \in DOMAIN req, body \in ServerQueryBodies : Query_Receive(r, body)
    \/ \E r \in DOMAIN req : Query_TokenOk(r)
    \/ \E r \in DOMAIN req, error \in TokenErrors : Query_TokenFail(r, error)
    \/ \E r \in DOMAIN req, outcome \in CallOutcomes : Query_Call(r, outcome)
    \/ \E r \in DOMAIN req : Query_Close(r)

SpecServer == InitServer /\ [][NextServer]_vars

----------------------------------------------------------------------------
(* Two requests in flight against a deployed warehouse function *)

PairSlots == {1, 2}

PairEntities ==
    {Obj([entity_name |-> Str("Sales_Report"), source_of_system |-> Str(s),
          source_details |-> SalesDetails]) : s \in {"SCM-BQ", "ORACLE"}}

PairBodies ==
    {Obj([entity |-> e, query |-> q]) :
        e \in PairEntities, q \in RequestQueries \ {Undefined}}

InitPair ==
    /\ FUNCTION_URL = WarehouseUrl
    /\ table = <<>>
    /\ req = [r \in PairSlots |-> IdleSlot]
    /\ cfgRes = CfgRes("none", 0)
    /\ ui = UiInit
    /\ jobs = {}
    /\ backend = "index.js"
    /\ lastWrite = [n \in EntityNames |-> NoRow]

NextPair ==
    \/ \E r \in DOMAIN req, b \in PairBodies : Query_Receive(r, b)
    \/ \E r \in DOMAIN req : Query_TokenOk(r)
    \/ \E r \in DOMAIN req, e \in TokenErrors : Query_TokenFail(r, e)
    \/ \E r \in DOMAIN req, o \in CallOutcomes : Query_Call(r, o)
    \/ \E r \in DOMAIN req : Query_Close(r)

SpecPair == InitPair /\ [][NextPair]_vars

----------------------------------------------------------------------------
(* The application: the query builder next to a deployed backend that also
   takes requests posted to it directly *)

NextApp ==
    \/ \E i \in 1..Len(ui.config) : UI_EntityChange(i)
    \/ \E c \in ToggleColumns : UI_ColumnToggle(c)
    \/ UI_ExecuteQuery
    \/ UI_QueryDone
    \/ \E r \in DOMAIN req, b \in PairBodies : Query_Receive(r, b)
    \/ \E r \in DOMAIN req : Query_TokenOk(r)
    \/ \E r \in DOMAIN req, e \in TokenErrors : Query_TokenFail(r, e)
    \/ \E r \in DOMAIN req, o \in CallOutcomes : Query_Call(r, o)
    \/ \E r \in DOMAIN req : Query_Close(r)

InitApp ==
    /\ FUNCTION_URL = WarehouseUrl
    /\ table = <<>>
    /\ req = [r \in Slots |-> IdleSlot]
    /\ cfgRes = CfgRes("none", 0)
    /\ ui = UiInit
    /\ jobs = {}
    /\ backend = "index.js"
    /\ lastWrite = [n \in EntityNames |-> NoRow]

SpecApp == InitApp /\ [][NextApp]_vars

----------------------------------------------------------------------------
(* The admin view alone *)

NextAdmin ==
    \/ UI_NewEntity
    \/ \E i \in 1..MaxConfig : UI_EditEntity(i)
    \/ UI_CloseModal
    \/ \E entityData \in FormData(ui.editingEntity) : UI_SaveEntity(entityData)
    \/ \E i \in 1..MaxConfig, confirmed \in BOOLEAN : UI_DeleteEntity(i, confirmed)

SpecAdmin == InitApp /\ [][NextAdmin]_vars

----------------------------------------------------------------------------
(* The query builder: the entity, its columns and the filters *)

NextBuilder ==
    \/ \E i \in 1..Len(ui.config) : UI_EntityChange(i)
    \/ \E columnName \in ToggleColumns : UI_ColumnToggle(columnName)
    \/ UI_AddFilter
    \/ \E index \in 1..MaxFilters, field \in {"column", "operator", "value"} :
          \E value \in FieldValues(field) : UI_FilterChange(index, field, value)
    \/ \E index \in 1..MaxFilters : UI_RemoveFilter(index)

SpecBuilder == InitApp /\ [][NextBuilder]_vars

----------------------------------------------------------------------------
(* The query builder and its mock queries *)

NextUI ==
    \/ \E i \in 1..Len(ui.config) : UI_EntityChange(i)
    \/ \E columnName \in ToggleColumns : UI_ColumnToggle(columnName)
    \/ UI_ExecuteQuery
    \/ UI_QueryDone

\* the timer of a mock query fires
SpecUI == InitApp /\ [][NextUI]_vars /\ WF_vars(UI_QueryDone)

----------------------------------------------------------------------------
(* What the claims speak of *)

EntityOf(slot) == Get(slot.body, "entity")

QueryOf(slot) == Get(slot.body, "query")

\* the request carries both an entity and a query
WellFormed(slot) == ~Falsy(EntityOf(slot)) /\ ~Falsy(QueryOf(slot))

\* the payloads a slot's request has sent to the warehouse function
Payloads(slot) == {slot.calls[i].data : i \in 1..Len(slot.calls)}

Elements(a) == IF a.t = "array" THEN {a.v[i] : i \in 1..Len(a.v)} ELSE {}

\* the names of the columns a query selects or filters on
ColumnsUsed(q) ==
    {c.v : c \in Elements(Get(q, "columns"))}
    \cup {Get(f, "column").v : f \in Elements(Get(q, "filters"))}

OperatorsUsed(q) == {Get(f, "operator").v : f \in Elements(Get(q, "filters"))}

\* the rows of the registry for the entity a request names
Registered(slot) ==
    {i \in 1..Len(table) : table[i].entity_name = Get(EntityOf(slot), "entity_name")}

\* the step in which slot r takes a request
Received(r) == req[r].pc = "idle" /\ req'[r].pc # "idle"

Responded(slot, s) == slot.pc = "done" /\ Len(slot.res) = 1 /\ slot.res[1].status = s

NothingContacted(slot) == slot.tokens = <<>> /\ slot.calls = <<>>

\* C1: on the warehouse path the projectId, datasetId and tableId sent to the
\* function are those of the entity's source_details, whatever `query` holds
C1_PayloadCoordinates ==
    \A r \in DOMAIN req : \A p \in Payloads(req[r]) :
        \A k \in {"projectId", "datasetId", "tableId"} :
            Get(p, k) = Get(SourceDetailsOf(EntityOf(req[r])).value, k)

\* C2: the adapter a request is routed to is the source_of_system the registry
\* holds for the request's entity_name
C2_RoutedByRegistry ==
    [][\A r \in DOMAIN req :
          (Received(r) /\ req'[r].adapter # "none")
          => \E i \in Registered(req'[r]) :
                table[i].source_of_system = Str(req'[r].adapter)]_vars

\* C3: a query for an entity the registry does not hold fails with NotFound
\* and requests no token and makes no downstream call
C3_UnknownEntityNotFound ==
    [][\A r \in DOMAIN req :
          (Received(r) /\ WellFormed(req'[r]) /\ Registered(req'[r]) = {})
          => Responded(req'[r], 404) /\ NothingContacted(req'[r])]_vars

\* C4: a query that selects or filters on a column the entity does not declare
\* is rejected as invalid, with no token requested and no downstream call
C4_UndeclaredColumnRejected ==
    \A r \in DOMAIN req :
        (/\ req[r].pc # "idle"
         /\ WellFormed(req[r])
         /\ ~(ColumnsUsed(QueryOf(req[r]))
                \subseteq Range(MOCK_COLUMNS(Get(EntityOf(req[r]), "entity_name").v))))
        => Responded(req[r], 400) /\ NothingContacted(req[r])

\* C6: every filter operator of a payload sent downstream is one of the eight
\* operators
C6_OperatorsEnumerated ==
    \A r \in DOMAIN req : \A p \in Payloads(req[r]) : OperatorsUsed(p) \subseteq Operators

\* C7: the limit of every payload sent downstream is at most the ceiling
C7_LimitBounded ==
    \A r \in DOMAIN req : \A p \in Payloads(req[r]) :
        Get(p, "limit").t = "number" /\ Get(p, "limit").v <= UILimit

StatusClass(s) == s \div 100

\* two responses coincide: the same status class and the same error shape
Coincide(a, b) ==
    /\ StatusClass(a.status) = StatusClass(b.status)
    /\ DOMAIN a.body.v = DOMAIN b.body.v

\* the request names a source system the handler has no branch for
Unsupported(slot) ==
    /\ slot.pc = "done"
    /\ WellFormed(slot)
    /\ Get(EntityOf(slot), "source_of_system") \notin {Str("SCM-BQ"), Str("SAP-BW")}

\* the request ended in the catch block after the downstream call failed
CallFailed(slot) == slot.pc = "done" /\ slot.caught = "call"

TokenFailed(slot) == slot.pc = "done" /\ slot.caught = "token"

\* C8: a query for an unsupported source fails with an unsupported-source
\* error without token or downstream call, and its response never coincides
\* with the response to a failed warehouse call
C8_UnsupportedDistinct ==
    \A r \in DOMAIN req :
        Unsupported(req[r])
        => /\ Responded(req[r], 400)
           /\ NothingContacted(req[r])
           /\ \A q \in DOMAIN req :
                 CallFailed(req[q]) => ~Coincide(req[r].res[1], req[q].res[1])

\* C9: two requests whose downstream call failed with the same status and
\* that differ only in the downstream's error body get the same response
C9_ErrorBodyIndependent ==
    \A r, q \in DOMAIN req :
        (/\ CallFailed(req[r]) /\ CallFailed(req[q])
         /\ req[r].body = req[q].body
         /\ req[r].error.hasResponse = req[q].error.hasResponse
         /\ req[r].error.status = req[q].error.status)
        => req[r].res = req[q].res

\* C10: for the same request, the response to a failed token acquisition
\* differs from the response to a downstream call that failed without an
\* HTTP response
C10_BrokerErrorDistinct ==
    \A r, q \in DOMAIN req :
        (/\ TokenFailed(req[r])
         /\ CallFailed(req[q]) /\ ~req[q].error.hasResponse
         /\ req[r].body = req[q].body)
        => req[r].res # req[q].res

\* C5: a query with an empty column selection is rejected before any token
\* request or downstream call, by executeQuery of the UI and by /api/query
C5_EmptyColumnsRejected ==
    /\ [][(UI_ExecuteQuery /\ ui.selectedColumns = <<>>)
          => /\ ui'.error = Str("Please select an entity and at least one column.")
             /\ ui'.inflight = ui.inflight
             /\ req' = req]_vars
    /\ [](\A r \in DOMAIN req :
            (/\ req[r].pc # "idle"
             /\ WellFormed(req[r])
             /\ Elements(Get(QueryOf(req[r]), "columns")) = {})
            => Responded(req[r], 400) /\ NothingContacted(req[r]))

\* C11: on the warehouse path one token, with audience FUNCTION_URL, is
\* requested per outbound call, the call is issued only after the token
\* request has completed, and never after it has failed
C11_OneTokenPerCall ==
    \A r \in DOMAIN req :
        LET slot == req[r]
        IN  /\ Len(slot.tokens) <= 1
            /\ Len(slot.calls) <= Len(slot.tokens)
            /\ \A i \in 1..Len(slot.tokens) :
                  slot.tokens[i] = FUNCTION_URL /\ FUNCTION_URL # ""
            /\ \A i \in 1..Len(slot.calls) : slot.calls[i].url = slot.tokens[1]
            /\ slot.pc = "token" => slot.calls = <<>>
            /\ slot.caught = "token" => slot.calls = <<>>
            /\ slot.adapter = "SCM-BQ" /\ slot.pc \in {"token", "calling"}
                  => Len(slot.tokens) = 1

\* a warehouse request whose call went out under its one token
C11_Witness ==
    \E r \in DOMAIN req :
        /\ req[r].pc = "done"
        /\ req[r].tokens = <<WarehouseUrl>>
        /\ Len(req[r].calls) = 1
        /\ req[r].caught = "none"

\* C12: a request issues at most one downstream call, and a failed call is
\* answered with an error in the same request
C12_NoRetry ==
    \A r \in DOMAIN req :
        /\ Len(req[r].calls) <= 1
        /\ req[r].caught = "call"
              => /\ req[r].pc = "done"
                 /\ Len(req[r].res) = 1
                 /\ req[r].res[1].status \notin 200..299

\* a request whose one downstream call failed and that was answered 503
C12_Witness ==
    \E r \in DOMAIN req :
        /\ CallFailed(req[r])
        /\ Len(req[r].calls) = 1
        /\ req[r].res[1].status = 503

\* C13: a request whose downstream call is never answered still ends: it is
\* answered with an error once the per-call timeout expires
C13_HungCallEnds ==
    \A r \in Slots :
        (req[r].pc \in {"calling", "hung"})
        ~> (req[r].pc = "done" /\ Len(req[r].res) = 1)

\* the request names a legacy (SAP-BW) entity
Legacy(slot) ==
    WellFormed(slot) /\ Get(EntityOf(slot), "source_of_system") = Str("SAP-BW")

\* C14: a query for a SAP-BW entity makes exactly one POST, to the legacy
\* endpoint, and requests no token
C14_LegacyForwarded ==
    \A r \in DOMAIN req :
        (req[r].pc = "done" /\ Legacy(req[r]))
        => /\ Len(req[r].calls) = 1
           /\ req[r].calls[1].url # FUNCTION_URL
           /\ req[r].tokens = <<>>

\* a registry write of entity_name `name` answered by storage without error
DeleteStep(name) ==
    \/ Config_Delete(name, [ok |-> TRUE, code |-> 0])
    \/ \E authHeader \in AuthHeaders :
          /\ checkAuth(authHeader)
          /\ Old_Config_Delete(authHeader, name, [ok |-> TRUE, code |-> 0])

Success(res) == res.status \in 200..299

\* C15: DELETE of an entity_name that is not stored answers 404 and leaves the
\* registry as it was; DELETE of a stored entity_name answers success and
\* removes it
C15_DeleteAbsentNotFound ==
    [][\A name \in EntityNames :
          DeleteStep(name)
          => IF Matching(Str(name)) = {}
             THEN cfgRes'.status = 404 /\ table' = table
             ELSE /\ Success(cfgRes')
                  /\ \A i \in 1..Len(table') : table'[i].entity_name # Str(name)]_vars

\* a PUT with a complete body that storage answered without error
UpdateStep(name, body) ==
    \/ Config_Update(name, body, [ok |-> TRUE, code |-> 0])
    \/ \E authHeader \in AuthHeaders :
          /\ checkAuth(authHeader)
          /\ Old_Config_Update(authHeader, name, body, [ok |-> TRUE, code |-> 0])

Complete(body) ==
    /\ ~Falsy(Get(body, "entity_name")) /\ ~Falsy(Get(body, "display_name"))
    /\ ~Falsy(Get(body, "source_of_system")) /\ ~Falsy(Get(body, "source_details"))

\* C16: PUT of an entity_name that is not stored answers 404, never success,
\* and the registry is unchanged
C16_UpdateAbsentNotFound ==
    [][\A name \in EntityNames, body \in RegistryBodies :
          (UpdateStep(name, body) /\ Complete(body) /\ Matching(Str(name)) = {})
          => cfgRes'.status = 404 /\ table' = table]_vars

\* the row a body asks to be stored
RowOf(body) ==
    [entity_name |-> Get(body, "entity_name"),
     display_name |-> Get(body, "display_name"),
     source_of_system |-> Get(body, "source_of_system"),
     source_details |-> JSON_stringify(Get(body, "source_details"))]

\* a write of a complete body, by POST or by PUT, that storage answered
\* without error
WriteStep(body) ==
    \/ Config_Create(body, [ok |-> TRUE, code |-> 0])
    \/ Config_Update(Get(body, "entity_name").v, body, [ok |-> TRUE, code |-> 0])

\* C17: a write keyed by entity_name leaves exactly one record of that name,
\* with the written content, whether the name was stored before or not, and
\* leaves the records of other names alone
C17_UpsertIdempotent ==
    [][\A body \in RegistryBodies :
          (Complete(body) /\ WriteStep(body))
          => LET name == Get(body, "entity_name")
                 mine == {i \in 1..Len(table') : table'[i].entity_name = name}
             IN  /\ Cardinality(mine) = 1
                 /\ \A i \in mine : table'[i] = RowOf(body)
                 /\ Without(table', name) = Without(table, name)]_vars

\* C18: in every reachable state the registry holds at most one record per
\* entity_name
C18_UniqueEntityName ==
    \A name \in EntityNames : Cardinality(Matching(Str(name))) <= 1

\* the records of entity_name `name` in the array a list answered with
Listed(name) ==
    {cfgRes.rows[i] : i \in {j \in 1..Len(cfgRes.rows) :
                                cfgRes.rows[j].entity_name = Str(name)}}

\* C19: a list answered after a create or update of entity_name was answered
\* with success holds, for that entity_name, exactly the record written last
C19_ReadAfterWrite ==
    (cfgRes.op = "list" /\ cfgRes.status = 200)
    => \A name \in EntityNames :
          lastWrite[name] # NoRow => Listed(name) = {lastWrite[name]}

\* the outcomes of a storage call
AnyOutcomes == StorageOutcomes \cup {[ok |-> FALSE, code |-> ALREADY_EXISTS]}

\* storage failed (timeout, unavailable), as opposed to refusing a duplicate
Failure(outcome) == ~outcome.ok /\ outcome.code # ALREADY_EXISTS

\* a registry request on the key `name`, handled with storage outcome `outcome`
RegistryStep(name, outcome) ==
    \/ Config_List(outcome)
    \/ \E body \in RegistryBodies :
          /\ Get(body, "entity_name") = Str(name)
          /\ outcome \in InsertOutcomes(body)
          /\ Config_Create(body, outcome)
    \/ \E body \in RegistryBodies : Config_Update(name, body, outcome)
    \/ Config_Delete(name, outcome)
    \/ \E authHeader \in AuthHeaders, body \in RegistryBodies :
          /\ Get(body, "entity_name") = Str(name)
          /\ Old_Config_Create(authHeader, body, outcome)
    \/ \E authHeader \in AuthHeaders, body \in RegistryBodies :
          Old_Config_Update(authHeader, name, body, outcome)
    \/ \E authHeader \in AuthHeaders : Old_Config_Delete(authHeader, name, outcome)

\* C20: a storage failure is answered with neither 404 nor 409; 404 is answered
\* only when the key is not stored and 409 only when it is
C20_StorageFailureDistinct ==
    [][(cfgRes'.status \in {404, 409})
       => \A name \in EntityNames, outcome \in AnyOutcomes :
             RegistryStep(name, outcome)
             => /\ ~Failure(outcome)
                /\ cfgRes'.op # "list"
                /\ cfgRes'.status = 404 => Matching(Str(name)) = {}
                /\ cfgRes'.status = 409 => Matching(Str(name)) # {}]_vars

C20_Witness ==
    /\ backend = "index.js"
    /\ cfgRes = CfgRes("delete", 500)
    /\ Matching(Str("Sales_Report")) # {}

\* the fields a PUT takes from its body are all there
CompleteForUpdate(body) ==
    /\ ~Falsy(Get(body, "display_name")) /\ ~Falsy(Get(body, "source_of_system"))
    /\ ~Falsy(Get(body, "source_details"))

\* the headers checkAuth lets through
Authorized == {authHeader \in AuthHeaders : checkAuth(authHeader)}

\* the bodies that lack a field a create, respectively an update, requires
IncompleteBodies == {body \in RegistryBodies : ~Complete(body)}

IncompleteUpdateBodies == {body \in RegistryBodies : ~CompleteForUpdate(body)}

\* a create whose body lacks a required field
IncompleteCreate ==
    \E body \in IncompleteBodies, outcome \in AnyOutcomes :
        \/ Config_Create(body, outcome)
        \/ \E authHeader \in Authorized :
              Old_Config_Create(authHeader, body, outcome)

\* an update whose body lacks a required field
IncompleteUpdate ==
    \E body \in IncompleteUpdateBodies, outcome \in AnyOutcomes,
       name \in EntityNames :
        \/ Config_Update(name, body, outcome)
        \/ \E authHeader \in Authorized :
              Old_Config_Update(authHeader, name, body, outcome)

\* C21: a create or update whose body lacks a required field is answered 400
\* whatever storage would have answered, and neither the table nor the jobs
\* change
C21_MissingFieldRejected ==
    [][(\/ cfgRes'.op = "create" /\ IncompleteCreate
        \/ cfgRes'.op = "update" /\ IncompleteUpdate)
       => cfgRes'.status = 400 /\ table' = table /\ jobs' = jobs]_vars

C21_Witness == cfgRes = CfgRes("create", 400) /\ table # <<>>

\* C22: every /api/query request that was received ends with exactly one
\* response sent, and at no time has a request more than one response
C22_ExactlyOneResponse ==
    \A r \in Slots :
        /\ [](Len(req[r].res) <= 1)
        /\ (req[r].pc # "idle") ~> (req[r].pc = "done" /\ Len(req[r].res) = 1)

\* C23: an error caught in a request is answered to that request as one error
\* response, and the step changes neither the table nor any other request; a
\* registry request that storage failed leaves the table and the requests in
\* flight as they were
C23_ErrorsScoped ==
    [][/\ \A r \in DOMAIN req :
             (req[r].caught = "none" /\ req'[r].caught # "none")
             => /\ req'[r].pc = "done" /\ Len(req'[r].res) = 1
                /\ req'[r].res[1].status >= 400
                /\ table' = table /\ cfgRes' = cfgRes
                /\ \A q \in DOMAIN req \ {r} : req'[q] = req[q]
       /\ (cfgRes' # cfgRes /\ cfgRes'.status >= 500)
             => table' = table /\ req' = req]_vars

C23_Witness ==
    \E r, q \in DOMAIN req :
        /\ r # q /\ table # <<>> /\ cfgRes = CfgRes("list", 500)
        /\ req[r].caught = "token" /\ Len(req[r].res) = 1
        /\ req[q].pc = "calling"

\* the request carries an entity of the warehouse and a query
WarehousePath(slot) ==
    WellFormed(slot) /\ Get(EntityOf(slot), "source_of_system") = Str("SCM-BQ")

\* C24: while FUNCTION_URL is not set, every request of the warehouse path is
\* answered 500 with the configuration error, and requests no token and makes
\* no downstream call
C24_UnconfiguredFails ==
    FUNCTION_URL = ""
    => \A r \in DOMAIN req :
          (req[r].pc # "idle" /\ WarehousePath(req[r]))
          => /\ Responded(req[r], 500)
             /\ req[r].res[1].body =
                   ErrorBody("Query function URL is not configured on the backend.")
             /\ NothingContacted(req[r])

C24_Witness ==
    /\ FUNCTION_URL = ""
    /\ \E r \in DOMAIN req :
          /\ WarehousePath(req[r]) /\ Responded(req[r], 500)
          /\ Get(EntityOf(req[r]), "source_details") = SalesDetails

\* C25: no two entities of the admin configuration list share an id
C25_IdsDistinct ==
    \A i, j \in 1..Len(ui.config) :
        i # j => Get(ui.config[i], "id") # Get(ui.config[j], "id")

\* C26: once an entity is selected and the effect has run, `columns` is the
\* entity's column list, and every selected column and every filter's column
\* is in it
C26_ColumnsOfEntity ==
    ~Falsy(ui.selectedEntity)
    => /\ ui.columns = MOCK_COLUMNS(Get(ui.selectedEntity, "entity_name").v)
       /\ Range(ui.selectedColumns) \subseteq Range(ui.columns)
       /\ \A k \in 1..Len(ui.filters) :
             Get(ui.filters[k], "column").v \in Range(ui.columns)

C26_Witness ==
    /\ Get(ui.selectedEntity, "entity_name") = Str("Inventory_Levels")
    /\ ui.selectedColumns = <<"warehouse_id", "product_id">>
    /\ Len(ui.filters) = 2
    /\ Get(ui.filters[2], "column") = Str("warehouse_id")
    /\ Get(ui.filters[1], "operator") = Str("IN")

\* the property names of the rows on screen
ResultKeys == UNION {DOMAIN row.v : row \in Elements(ui.results)}

\* C27: whenever results is not null, its rows were made for the entity that
\* is selected, and for warehouse entities from columns of that entity
C27_ResultsOfSelected ==
    ui.results # Undefined
    => /\ ui.resultsOf = ui.selectedEntity
       /\ Get(ui.selectedEntity, "source_of_system") = Str("SCM-BQ")
             => ResultKeys \subseteq Range(ui.columns)

\* C28: error and results are never both set
C28_ErrorOrResults == ~(ui.error # Undefined /\ ui.results # Undefined)

\* C29: isLoading is true exactly while a query is in flight, at most one
\* query is in flight, and isLoading always becomes false again
C29_LoadingWhileInFlight ==
    /\ [](ui.isLoading <=> ui.inflight # <<>>)
    /\ [](Len(ui.inflight) <= 1)
    /\ ui.isLoading ~> ~ui.isLoading

C29_Witness ==
    /\ ui.isLoading /\ Len(ui.inflight) = 1
    /\ ui.inflight[1].entity # ui.selectedEntity
    /\ ui.inflight[1].selectedColumns = <<"amount">>

====
